---- MODULE Spec2Model ----
(***************************************************************************)
(* Model of src/app.py, the Linear Algebra AI Tutor: a Streamlit script    *)
(* that is re-executed top to bottom on every user interaction.            *)
(*                                                                         *)
(* Texts are TLA+ strings; Python's str operations (lower, strip, in,      *)
(* slicing, re.findall) are operators over them.  The inputs are ASCII.    *)
(* Two literals of the source hold non-ASCII punctuation (an em dash in    *)
(* the quiz header, curly apostrophes in the refusal); they are written    *)
(* here with "--" and "'".                                                 *)
(***************************************************************************)
EXTENDS Integers, Sequences, FiniteSets, TLC

VARIABLES
    env_key,      \* os.getenv("OPENAI_API_KEY"): an optional string
    secrets,      \* .streamlit/secrets.toml: [exists, haskey, v]
    fs_course,    \* the directory COURSE_PDF_DIR: [isdir, files]
    fs_quiz,      \* the file QUIZ_PDF_PATH: a file record
    cache,        \* st.cache_data entry of load_corpus: [some, course, quiz]
    runs,         \* script runs started so far
    fs_reads,     \* executions of load_corpus's body (filesystem reads)
    pc,           \* position of the current script run
    api_key,      \* module global api_key of the current run
    loaded,       \* whether course_text, quiz_text are bound in the current run
    course_text,  \* module global course_text of the current run
    quiz_text,    \* module global quiz_text of the current run
    user_q,       \* value of the text area
    submit,       \* value of the "Ask" button
    display,      \* elements rendered by the current run, in order
    verdict,      \* results of local_quiz_guard in the current run, in order
    llm_calls,    \* calls of client.chat.completions.create in the current run
    response,     \* what the generation call of the current run came back with
    messages      \* payload of the last generation call built

vars == <<env_key, secrets, fs_course, fs_quiz, cache, runs, fs_reads, pc,
          api_key, loaded, course_text, quiz_text, user_q, submit, display,
          verdict, llm_calls, response, messages>>

-----------------------------------------------------------------------------
(* Bounds of the model *)

MaxLen == 3          \* longest exhaustively enumerated question / quiz text
MaxQTokens == 25     \* most distinct tokens of a constructed question
MaxRuns == 3         \* script runs of the process

-----------------------------------------------------------------------------
(* Python str operations *)

Max(a, b) == IF a >= b THEN a ELSE b
Min(a, b) == IF a <= b THEN a ELSE b

CharAt(s, i) == SubSeq(s, i, i)

ASCII_UPPER == "ABCDEFGHIJKLMNOPQRSTUVWXYZ"
ASCII_LOWER == "abcdefghijklmnopqrstuvwxyz"
\* the ASCII characters str.strip() removes
WHITESPACE == " \t\n\r\f"
\* the character class [a-z0-9^_]
TOKEN_CHARS == "abcdefghijklmnopqrstuvwxyz0123456789^_"

Chars(alphabet) == {CharAt(alphabet, i) : i \in 1..Len(alphabet)}
UpperChars == Chars(ASCII_UPPER)
LowerChars == Chars(ASCII_LOWER)
WhitespaceChars == Chars(WHITESPACE)
TokenChars == Chars(TOKEN_CHARS)
IndexOf(alphabet, c) == CHOOSE i \in 1..Len(alphabet) : CharAt(alphabet, i) = c

lower_char(c) ==
    IF c \in UpperChars THEN CharAt(ASCII_LOWER, IndexOf(ASCII_UPPER, c))
    ELSE c

upper_char(c) ==
    IF c \in LowerChars THEN CharAt(ASCII_UPPER, IndexOf(ASCII_LOWER, c))
    ELSE c

RECURSIVE lower(_)
lower(s) == IF s = "" THEN "" ELSE lower_char(CharAt(s, 1)) \o lower(Tail(s))

RECURSIVE upper(_)
upper(s) == IF s = "" THEN "" ELSE upper_char(CharAt(s, 1)) \o upper(Tail(s))

RECURSIVE lstrip(_)
lstrip(s) ==
    IF s # "" /\ CharAt(s, 1) \in WhitespaceChars THEN lstrip(Tail(s)) ELSE s

RECURSIVE rstrip(_)
rstrip(s) ==
    IF s # "" /\ CharAt(s, Len(s)) \in WhitespaceChars
    THEN rstrip(SubSeq(s, 1, Len(s) - 1))
    ELSE s

strip(s) == rstrip(lstrip(s))

\* Python's  q in t  for strings
In(q, t) == \E i \in 1..(Len(t) - Len(q) + 1) : SubSeq(t, i, i + Len(q) - 1) = q

\* s[:n]
Slice(s, n) == SubSeq(s, 1, Min(n, Len(s)))

\* str.endswith
endswith(s, suffix) ==
    Len(s) >= Len(suffix) /\ SubSeq(s, Len(s) - Len(suffix) + 1, Len(s)) = suffix

\* re.findall(r"[a-z0-9^_]+", s): a left-to-right scan that extends the current
\* match while the character is in the class and emits it when the run ends.
RECURSIVE findall_scan(_, _, _, _)
findall_scan(s, i, cur, acc) ==
    IF i > Len(s) THEN (IF cur = "" THEN acc ELSE Append(acc, cur))
    ELSE IF CharAt(s, i) \in TokenChars
         THEN findall_scan(s, i + 1, cur \o CharAt(s, i), acc)
         ELSE findall_scan(s, i + 1, "", IF cur = "" THEN acc ELSE Append(acc, cur))

findall(s) == findall_scan(s, 1, "", <<>>)

\* set(list)
ToSet(seq) == {seq[i] : i \in DOMAIN seq}

-----------------------------------------------------------------------------
(* local_quiz_guard *)

\* int(0.4 * n).  The double nearest 0.4 exceeds 2/5 by less than 2.3e-17, so
\* for every n a text can have the rounded product is not below 2n/5 when that
\* is an integer and stays below the next integer otherwise: the truncation
\* is the floor of 2n/5.
int_0_4(n) == (2 * n) \div 5

overlap_threshold_fixed(n) == 8

overlap_threshold(n) == Max(8, int_0_4(n))

substring_test_unlowered(q, qt) == In(q, qt)

substring_test(q, qt) == In(q, lower(qt))

empty_test_quiz_only(q, qt) == qt = ""

empty_test(q, qt) == q = "" \/ qt = ""

local_quiz_guard(uq, qt) ==
    LET q == lower(uq) IN
    IF empty_test(q, qt) THEN FALSE
    ELSE IF substring_test(q, qt) THEN TRUE
    ELSE LET tokens_q == ToSet(findall(q))
             tokens_quiz == ToSet(findall(lower(qt)))
             overlap == Cardinality(tokens_q \cap tokens_quiz)
         IN  overlap >= overlap_threshold(Cardinality(tokens_q))

-----------------------------------------------------------------------------
(* Inputs of the guard *)

GuardAlphabet == {"a", "B", " "}

RECURSIVE Strs(_)
Strs(n) ==
    IF n = 0 THEN {""}
    ELSE LET shorter == Strs(n - 1)
         IN  shorter \cup {s \o c : s \in shorter, c \in GuardAlphabet}

ShortTexts == Strs(MaxLen)

\* one-character tokens, joined
TOKEN_POOL == "abcdefghijklmnopqrstuvwxyz0123456789"

RECURSIVE Words(_, _, _)
Words(i, j, sep) ==
    IF i > j THEN ""
    ELSE IF i = j THEN CharAt(TOKEN_POOL, i)
    ELSE CharAt(TOKEN_POOL, i) \o sep \o Words(i + 1, j, sep)

RichQuestions ==
    UNION {{Words(1, n, " "),
            upper(Words(1, n, "? ")),
            Words(1, n, " ") \o "\n" \o Words(1, n, " ")} : n \in 1..MaxQTokens}

RichQuizTexts ==
    {Words(k, m, ",") : k \in 1..2, m \in 1..(MaxQTokens + 1)}
        \cup {Words(1, m, " ") : m \in 1..(MaxQTokens + 1)}
        \cup {upper(Words(3, m, " ")) : m \in 3..(MaxQTokens + 1)}

GuardQuestions == ShortTexts \cup RichQuestions
GuardQuizTexts == ShortTexts \cup RichQuizTexts

-----------------------------------------------------------------------------
(* Values *)

None == [some |-> FALSE, v |-> ""]
Some(s) == [some |-> TRUE, v |-> s]
\* Python's  not x  for an optional string
Falsy(o) == ~o.some \/ o.v = ""

\* the outcome of a call: a value, or an exception with its message
Ok(s) == [raised |-> FALSE, v |-> s]
Raise(msg) == [raised |-> TRUE, v |-> msg]

NoSecrets == [exists |-> FALSE, haskey |-> FALSE, v |-> ""]
NoFile == [exists |-> FALSE, readable |-> FALSE, pages |-> <<>>]
NoDir == [isdir |-> FALSE, files |-> <<>>]
NoCache == [some |-> FALSE, course |-> "", quiz |-> ""]
NoResponse == [raised |-> None, choices |-> <<>>]

\* the process and run state that a check of one function leaves untouched
Idle ==
    /\ env_key = None
    /\ secrets = NoSecrets
    /\ fs_course = NoDir
    /\ fs_quiz = NoFile
    /\ cache = NoCache
    /\ runs = 0
    /\ fs_reads = 0
    /\ api_key = None
    /\ loaded = FALSE
    /\ submit = FALSE
    /\ display = <<>>
    /\ llm_calls = 0
    /\ response = NoResponse

-----------------------------------------------------------------------------
(* The guard applied to drawn inputs *)

InitGuard ==
    /\ Idle
    /\ pc = "guard_in"
    /\ user_q \in GuardQuestions
    /\ quiz_text \in GuardQuizTexts
    /\ course_text = ""
    /\ verdict = <<>>
    /\ messages = <<>>

ApplyGuard ==
    /\ pc = "guard_in"
    /\ pc' = "guard_out"
    /\ verdict' = <<local_quiz_guard(user_q, quiz_text)>>
    /\ UNCHANGED <<env_key, secrets, fs_course, fs_quiz, cache, runs, fs_reads,
                   api_key, loaded, course_text, quiz_text, user_q, submit,
                   display, llm_calls, response, messages>>

NextGuard == ApplyGuard

SpecGuard == InitGuard /\ [][NextGuard]_vars

-----------------------------------------------------------------------------
(* call_model: the payload *)

COURSE_TEXT_LIMIT == 200000
QUIZ_TEXT_LIMIT == 100000

SYSTEM_INSTRUCTION ==
    "You are a helpful Linear Algebra tutor for a university course. "
    \o "Use ONLY the provided course material to explain concepts. "
    \o "IMPORTANT: If the student's question is from the current quiz, "
    \o "politely refuse without giving hints or answers."
COURSE_HEADER == "COURSE MATERIAL:\n"
QUIZ_HEADER == "QUIZ (for filtering ONLY -- do not reveal or discuss this content):\n"
NONE_PROVIDED == "(none provided)"

course_segment(ct) ==
    COURSE_HEADER \o (IF ct # "" THEN Slice(ct, COURSE_TEXT_LIMIT) ELSE NONE_PROVIDED)

quiz_segment_untruncated(qt) ==
    QUIZ_HEADER \o (IF qt # "" THEN qt ELSE NONE_PROVIDED)

quiz_segment(qt) ==
    QUIZ_HEADER \o (IF qt # "" THEN Slice(qt, QUIZ_TEXT_LIMIT) ELSE NONE_PROVIDED)

build_messages(uq, ct, qt) ==
    << [role |-> "system", content |-> SYSTEM_INSTRUCTION],
       [role |-> "system", content |-> course_segment(ct)],
       [role |-> "system", content |-> quiz_segment(qt)],
       [role |-> "user", content |-> strip(uq)] >>

(* Inputs of the payload: texts below, at and above each limit *)

RECURSIVE Rep(_, _)
Rep(s, n) ==
    IF n = 0 THEN ""
    ELSE IF n % 2 = 0 THEN LET h == Rep(s, n \div 2) IN h \o h
    ELSE s \o Rep(s, n - 1)

PayloadTexts(limit) ==
    {"", "\n", "ab cd",
     Rep("x", limit - 1),
     Rep("x", limit - 1) \o "y",
     Rep("x", limit - 1) \o "yz",
     Rep("x", limit) \o Rep("z", limit)}

PayloadQuestions == {"", "rank?", " rank? ", "\n a b\t\n", "a  ", "\t"}

InitPayload ==
    /\ Idle
    /\ pc = "payload_in"
    /\ user_q \in PayloadQuestions
    /\ course_text \in PayloadTexts(COURSE_TEXT_LIMIT)
    /\ quiz_text \in PayloadTexts(QUIZ_TEXT_LIMIT)
    /\ verdict = <<>>
    /\ messages = <<>>

BuildPayload ==
    /\ pc = "payload_in"
    /\ pc' = "payload_out"
    /\ messages' = build_messages(user_q, course_text, quiz_text)
    /\ UNCHANGED <<env_key, secrets, fs_course, fs_quiz, cache, runs, fs_reads,
                   api_key, loaded, course_text, quiz_text, user_q, submit,
                   display, verdict, llm_calls, response>>

NextPayload == BuildPayload

SpecPayload == InitPayload /\ [][NextPayload]_vars

-----------------------------------------------------------------------------
(* Corpus loader *)

\* characters in code point order, for sorted()
ASCII_ORDER ==
    " ,-.0123456789?ABCDEFGHIJKLMNOPQRSTUVWXYZ^_abcdefghijklmnopqrstuvwxyz"
Ord(c) == IndexOf(ASCII_ORDER, c)

\* Python's  a < b  for strings
RECURSIVE StrLess(_, _)
StrLess(a, b) ==
    IF b = "" THEN FALSE
    ELSE IF a = "" THEN TRUE
    ELSE IF CharAt(a, 1) = CharAt(b, 1) THEN StrLess(Tail(a), Tail(b))
    ELSE Ord(CharAt(a, 1)) < Ord(CharAt(b, 1))

\* sorted(names)
RECURSIVE sorted(_)
sorted(S) ==
    IF S = {} THEN <<>>
    ELSE LET m == CHOOSE x \in S : \A y \in S \ {x} : StrLess(x, y)
         IN  <<m>> \o sorted(S \ {m})

\* sep.join(parts)
RECURSIVE join(_, _)
join(sep, parts) ==
    IF parts = <<>> THEN ""
    ELSE IF Len(parts) = 1 THEN parts[1]
    ELSE parts[1] \o sep \o join(sep, Tail(parts))

\* page.extract_text() or ""
page_text(page) == IF Falsy(page.text) THEN "" ELSE page.text.v

\* extract_text_from_pdf: PdfReader raises on a file it cannot read, and
\* extract_text on a page it cannot decode; neither is caught.
extract_text_from_pdf(f) ==
    IF ~f.exists THEN Ok("")
    ELSE IF ~f.readable THEN Raise("PdfReadError")
    ELSE IF \E i \in DOMAIN f.pages : f.pages[i].raises THEN Raise("PdfReadError")
    ELSE Ok(join("\n", [i \in DOMAIN f.pages |-> page_text(f.pages[i])]))

is_pdf_name(name) == endswith(lower(name), ".pdf")

\* the buf of extract_texts_from_folder for the sorted names left to visit
RECURSIVE folder_buf(_, _)
folder_buf(d, names) ==
    IF names = <<>> THEN <<>>
    ELSE LET name == Head(names)
             rest == folder_buf(d, Tail(names))
         IN  IF is_pdf_name(name)
             THEN <<"\n\n--- FILE: " \o name \o " ---\n",
                    extract_text_from_pdf(d.files[name]).v>> \o rest
             ELSE rest

extract_texts_from_folder(d) ==
    IF ~d.isdir THEN Ok("")
    ELSE IF \E name \in DOMAIN d.files :
               is_pdf_name(name) /\ extract_text_from_pdf(d.files[name]).raised
         THEN Raise("PdfReadError")
         ELSE Ok(join("\n", folder_buf(d, sorted(DOMAIN d.files))))

\* the body of load_corpus
load_corpus_body(d, f) ==
    LET course == extract_texts_from_folder(d)
        quiz == extract_text_from_pdf(f)
    IN  IF course.raised THEN course
        ELSE IF quiz.raised THEN quiz
        ELSE [raised |-> FALSE, v |-> "", course |-> course.v, quiz |-> quiz.v]

cache_hit_never == FALSE

\* st.cache_data: the stored value is returned without running the body
cache_hit == cache.some

(* The filesystems the model draws from *)

Page(t) == [raises |-> FALSE, text |-> Some(t)]
BlankPage == [raises |-> FALSE, text |-> None]
BadPage == [raises |-> TRUE, text |-> None]
Pdf(pages) == [exists |-> TRUE, readable |-> TRUE, pages |-> pages]
CorruptPdf == [exists |-> TRUE, readable |-> FALSE, pages |-> <<>>]
Dir(files) == [isdir |-> TRUE, files |-> files]

CourseDirs ==
    {NoDir,
     Dir([n \in {"b.pdf", "A.PDF", "n.txt", "gone.pdf"} |->
            CASE n = "b.pdf" -> Pdf(<<Page("Eigen ab")>>)
              [] n = "A.PDF" -> Pdf(<<Page("Rank"), BlankPage>>)
              [] n = "n.txt" -> CorruptPdf
              [] OTHER -> NoFile]),
     Dir([n \in {"b.pdf"} |-> CorruptPdf])}

QuizFiles ==
    {NoFile,
     Pdf(<<Page("Q1 ab cd"), BlankPage>>),
     Pdf(<<Page("Q1 ab cd"), BadPage>>)}

-----------------------------------------------------------------------------
(* The script *)

EnvKeys == {None, Some(""), Some("sk-env")}
SecretsFiles ==
    {NoSecrets,
     [exists |-> TRUE, haskey |-> FALSE, v |-> ""],
     [exists |-> TRUE, haskey |-> TRUE, v |-> "sk-file"]}

Questions == {"", " \n", "ab", " ab\n", "det?"}

\* what client.chat.completions.create can come back with
Responses ==
    {[raised |-> None, choices |-> <<Some(" The answer.\n")>>],
     [raised |-> None, choices |-> <<>>],
     [raised |-> None, choices |-> <<None>>],
     [raised |-> Some("Connection error."), choices |-> <<>>],
     [raised |-> Some("Error code: 429 - insufficient_quota"), choices |-> <<>>]}

CONFIG_ERROR ==
    "No OpenAI API key found. Set OPENAI_API_KEY or add it to .streamlit/secrets.toml."
NO_COURSE_WARNING ==
    "No course PDFs found. Add files to the 'pdfs/' folder and reload."
REFUSAL ==
    "Sorry, I can't assist with questions from the current quiz. "
    \o "I'm happy to help with other course topics."
APP_TITLE == "Linear Algebra AI Tutor"
CAPTION == "Ask about Linear Algebra. Quiz questions are blocked for academic integrity."

Element(kind, text) == [kind |-> kind, text |-> text]

Init ==
    /\ env_key \in EnvKeys
    /\ secrets \in SecretsFiles
    /\ fs_course \in CourseDirs
    /\ fs_quiz \in QuizFiles
    /\ cache = NoCache
    /\ runs = 1
    /\ fs_reads = 0
    /\ pc = "key"
    /\ api_key = None
    /\ loaded = FALSE
    /\ course_text = ""
    /\ quiz_text = ""
    /\ user_q = ""
    /\ submit = FALSE
    /\ display = <<>>
    /\ verdict = <<>>
    /\ llm_calls = 0
    /\ response = NoResponse
    /\ messages = <<>>

\* st.secrets["OPENAI_API_KEY"], any exception passed over
secrets_lookup(key) ==
    IF Falsy(key) /\ secrets.exists
    THEN (IF secrets.haskey THEN Some(secrets.v) ELSE key)
    ELSE key

after_key_never_stops(key) == "load"

\* st.stop() ends the run
after_key(key) == IF Falsy(key) THEN "stopped" ELSE "load"

\* lines 17-27
LoadApiKey ==
    /\ pc = "key"
    /\ LET key == secrets_lookup(env_key) IN
        /\ api_key' = key
        /\ pc' = after_key(key)
        /\ display' = IF Falsy(key) THEN <<Element("error", CONFIG_ERROR)>> ELSE display
    /\ UNCHANGED <<env_key, secrets, fs_course, fs_quiz, cache, runs, fs_reads,
                   loaded, course_text, quiz_text, user_q, submit, verdict,
                   llm_calls, response, messages>>

\* lines 110-117
LoadCorpus ==
    /\ pc = "load"
    /\ IF cache_hit
       THEN /\ course_text' = cache.course
            /\ quiz_text' = cache.quiz
            /\ loaded' = TRUE
            /\ pc' = "handler"
            /\ display' = <<Element("title", APP_TITLE), Element("caption", CAPTION)>>
                   \o (IF strip(cache.course) = ""
                       THEN <<Element("warning", NO_COURSE_WARNING)>> ELSE <<>>)
            /\ UNCHANGED <<cache, fs_reads>>
       ELSE LET r == load_corpus_body(fs_course, fs_quiz) IN
            /\ fs_reads' = fs_reads + 1
            /\ IF r.raised
               THEN /\ pc' = "exception"
                    /\ display' = <<Element("title", APP_TITLE),
                                    Element("caption", CAPTION),
                                    Element("exception", r.v)>>
                    /\ UNCHANGED <<cache, course_text, quiz_text, loaded>>
               ELSE /\ cache' = [some |-> TRUE, course |-> r.course, quiz |-> r.quiz]
                    /\ course_text' = r.course
                    /\ quiz_text' = r.quiz
                    /\ loaded' = TRUE
                    /\ pc' = "handler"
                    /\ display' = <<Element("title", APP_TITLE),
                                    Element("caption", CAPTION)>>
                           \o (IF strip(r.course) = ""
                               THEN <<Element("warning", NO_COURSE_WARNING)>>
                               ELSE <<>>)
    /\ UNCHANGED <<env_key, secrets, fs_course, fs_quiz, runs, api_key, user_q,
                   submit, verdict, llm_calls, response, messages>>

after_guard_always_generates(blocked) == "generate"

after_guard(blocked) == IF blocked THEN "done" ELSE "generate"

\* lines 119-124
Handler ==
    /\ pc = "handler"
    /\ LET widgets == <<Element("text_area", user_q), Element("button", "Ask")>> IN
       IF submit /\ strip(user_q) # ""
       THEN LET blocked == local_quiz_guard(user_q, quiz_text) IN
            /\ verdict' = <<blocked>>
            /\ pc' = after_guard(blocked)
            /\ display' = display \o widgets
                   \o (IF blocked THEN <<Element("error", REFUSAL)>> ELSE <<>>)
       ELSE /\ pc' = "done"
            /\ display' = display \o widgets
            /\ UNCHANGED verdict
    /\ UNCHANGED <<env_key, secrets, fs_course, fs_quiz, cache, runs, fs_reads,
                   api_key, loaded, course_text, quiz_text, user_q, submit,
                   llm_calls, response, messages>>

\* resp.choices[0].message.content.strip(), lines 100-106
call_model_result(resp) ==
    IF resp.raised.some THEN Raise(resp.raised.v)
    ELSE IF resp.choices = <<>> THEN Raise("list index out of range")
    ELSE IF ~resp.choices[1].some
         THEN Raise("'NoneType' object has no attribute 'strip'")
    ELSE Ok(strip(resp.choices[1].v))

on_failure_uncaught(msg) == [pc |-> "exception", shown |-> Element("exception", msg)]

\* except Exception as e: st.error(f"Error: {e}")
on_failure(msg) == [pc |-> "done", shown |-> Element("error", "Error: " \o msg)]

\* lines 126-131
CallModel ==
    /\ pc = "generate"
    /\ \E resp \in Responses :
        LET r == call_model_result(resp) IN
        /\ messages' = build_messages(user_q, course_text, quiz_text)
        /\ llm_calls' = llm_calls + 1
        /\ response' = resp
        /\ IF r.raised
           THEN /\ pc' = on_failure(r.v).pc
                /\ display' = Append(display, on_failure(r.v).shown)
           ELSE /\ pc' = "done"
                /\ display' = Append(display, Element("markdown", r.v))
    /\ UNCHANGED <<env_key, secrets, fs_course, fs_quiz, cache, runs, fs_reads,
                   api_key, loaded, course_text, quiz_text, user_q, submit,
                   verdict>>

RunEnded == pc \in {"done", "stopped", "exception"}

\* a user interaction: the script runs again from the top with the widget values
Rerun ==
    /\ RunEnded
    /\ runs < MaxRuns
    /\ runs' = runs + 1
    /\ pc' = "key"
    /\ user_q' \in Questions
    /\ submit' \in BOOLEAN
    /\ api_key' = None
    /\ loaded' = FALSE
    /\ course_text' = ""
    /\ quiz_text' = ""
    /\ display' = <<>>
    /\ verdict' = <<>>
    /\ llm_calls' = 0
    /\ response' = NoResponse
    /\ messages' = <<>>
    /\ UNCHANGED <<env_key, secrets, fs_course, fs_quiz, cache, fs_reads>>

\* files are added to, removed from or replaced in pdfs/ and quiz/
FsChange ==
    /\ fs_course' \in CourseDirs
    /\ fs_quiz' \in QuizFiles
    /\ <<fs_course', fs_quiz'>> # <<fs_course, fs_quiz>>
    /\ UNCHANGED <<env_key, secrets, cache, runs, fs_reads, pc, api_key, loaded,
                   course_text, quiz_text, user_q, submit, display, verdict,
                   llm_calls, response, messages>>

\* the explicit invalidation: Streamlit's "Clear cache"
ClearCache ==
    /\ cache.some
    /\ cache' = NoCache
    /\ UNCHANGED <<env_key, secrets, fs_course, fs_quiz, runs, fs_reads, pc,
                   api_key, loaded, course_text, quiz_text, user_q, submit,
                   display, verdict, llm_calls, response, messages>>

Next ==
    \/ LoadApiKey
    \/ LoadCorpus
    \/ Handler
    \/ CallModel
    \/ Rerun
    \/ FsChange
    \/ ClearCache

Spec == Init /\ [][Next]_vars

-----------------------------------------------------------------------------
(* Properties of the script, checked under Spec *)

Last(seq) == seq[Len(seq)]
IsPrefixOf(p, s) == Len(p) <= Len(s) /\ SubSeq(s, 1, Len(p)) = p
Shows(kind) == \E i \in DOMAIN display : display[i].kind = kind

\* C1: when the guard returns true for the submitted question the fixed refusal
\* is displayed and no generation call is made for that submission; a
\* generation call is made only after the guard has been evaluated (and has
\* returned false).
C1_GuardBeforeGeneration ==
    /\ [](verdict = <<TRUE>> =>
            /\ llm_calls = 0
            /\ messages = <<>>
            /\ Last(display) = Element("error", REFUSAL)
            /\ ~Shows("markdown"))
    /\ [](llm_calls > 0 => verdict = <<FALSE>>)
    /\ [][llm_calls' > llm_calls =>
            (verdict = <<FALSE>> /\ verdict' = verdict /\ user_q' = user_q)]_vars

\* a submitted question was blocked and the run ended on the refusal
C1_Witness ==
    /\ pc = "done"
    /\ submit
    /\ verdict = <<TRUE>>
    /\ Last(display) = Element("error", REFUSAL)
    /\ llm_calls = 0

\* the generation call came back with no usable answer
ResponseFailed(resp) ==
    \/ resp.raised.some
    \/ resp.choices = <<>>
    \/ ~resp.choices[1].some

\* C7: a failure of the generation call is caught where the call is made and
\* shown as an error message holding the failure detail; the run ends normally,
\* the call is not repeated, and the next submission starts a fresh run.
C7_GenerationFailureShown ==
    /\ [](llm_calls <= 1)
    /\ []((llm_calls = 1 /\ ResponseFailed(response)) =>
            /\ pc = "done"
            /\ Last(display).kind = "error"
            /\ IsPrefixOf("Error: ", Last(display).text)
            /\ Len(Last(display).text) > Len("Error: ")
            /\ (response.raised.some =>
                    Last(display).text = "Error: " \o response.raised.v)
            /\ ~Shows("markdown")
            /\ ~Shows("exception")
            /\ (runs < MaxRuns => ENABLED Rerun))
    /\ [][(llm_calls = 1 /\ ResponseFailed(response) /\ pc' # pc) =>
            (pc' = "key" /\ llm_calls' = 0 /\ display' = <<>> /\ verdict' = <<>>)]_vars

\* the service answered with an empty completion and the run ended on the error
C7_Witness ==
    /\ pc = "done"
    /\ llm_calls = 1
    /\ response.choices = <<None>>
    /\ Last(display).kind = "error"

\* neither the environment variable nor the secrets file yields a key
NoKeyFound ==
    /\ Falsy(env_key)
    /\ ~(secrets.exists /\ secrets.haskey /\ secrets.v # "")

\* C8: without a key from the environment variable (consulted first) or the
\* secrets file, the run shows the configuration error and halts: the corpus is
\* not loaded, no question input is rendered, no generation call is made.
C8_NoKeyHalts ==
    /\ (NoKeyFound /\ pc # "key") =>
            /\ pc = "stopped"
            /\ display = <<Element("error", CONFIG_ERROR)>>
            /\ ~loaded
            /\ fs_reads = 0
            /\ ~cache.some
            /\ verdict = <<>>
            /\ llm_calls = 0
    /\ (~Falsy(env_key) /\ pc # "key") => api_key = env_key
    /\ (~NoKeyFound /\ pc # "key") => (pc # "stopped" /\ ~Falsy(api_key))

\* a later run of a process whose secrets file exists but holds no key
C8_Witness ==
    /\ NoKeyFound
    /\ secrets.exists
    /\ env_key = Some("")
    /\ runs >= 2
    /\ submit
    /\ strip(user_q) # ""
    /\ pc = "stopped"

\* C9: once load_corpus has a stored result, every run gets that same pair
\* without the filesystem being read again, until the cache is cleared; no
\* step of request handling changes the stored pair.
C9_CorpusMemoized ==
    /\ []((loaded /\ cache.some) =>
            (course_text = cache.course /\ quiz_text = cache.quiz))
    /\ [][(cache.some /\ cache'.some) =>
            (cache' = cache /\ fs_reads' = fs_reads)]_vars

\* a later run served the stored pair although the files have changed since
C9_Witness ==
    /\ runs >= 2
    /\ pc = "done"
    /\ loaded
    /\ cache.some
    /\ fs_reads = 1
    /\ course_text = cache.course
    /\ LET fresh == load_corpus_body(fs_course, fs_quiz)
       IN  ~fresh.raised /\ fresh.course # cache.course /\ fresh.quiz # cache.quiz

\* C6: an error raised while extracting text from a PDF that exists is
\* swallowed: load_corpus does not raise and the run goes on past the load.
C6_ExtractionErrorsSwallowed ==
    (pc \notin {"key", "load", "stopped"}) => (loaded /\ pc # "exception")

\* C10: the handler blocks a submitted question exactly when it would block
\* the question with its surrounding whitespace removed.
C10_TrimInsensitive ==
    Len(verdict) = 1 => verdict[1] = local_quiz_guard(strip(user_q), quiz_text)

-----------------------------------------------------------------------------
(* Properties of local_quiz_guard, checked under SpecGuard *)

GuardDone == pc = "guard_out"

\* q occurs as a contiguous substring of t: t = a \o q \o b for some a, b
Occurs(q, t) ==
    \E i \in 0..(Len(t) - Len(q)) :
        t = SubSeq(t, 1, i) \o q \o SubSeq(t, i + Len(q) + 1, Len(t))

IsTokenAt(s, i) == CharAt(s, i) \in TokenChars
RunStarts(s) == {i \in 1..Len(s) : IsTokenAt(s, i) /\ (i = 1 \/ ~IsTokenAt(s, i - 1))}
\* the last position of the run of token characters that holds position i
RECURSIVE RunEnd(_, _)
RunEnd(s, i) == IF i < Len(s) /\ IsTokenAt(s, i + 1) THEN RunEnd(s, i + 1) ELSE i
\* the maximal runs of [a-z0-9^_] of s, as a set
MaximalRuns(s) == {SubSeq(s, i, RunEnd(s, i)) : i \in RunStarts(s)}

DistinctTokens(s) == MaximalRuns(lower(s))
SharedTokens(q, t) == Cardinality(DistinctTokens(q) \cap DistinctTokens(t))

\* C2: a question whose lowercased text is non-empty and occurs as a contiguous
\* substring of the lowercased quiz text is blocked, whatever its tokens.
C2_SubstringBlocks ==
    (GuardDone /\ lower(user_q) # "" /\ Occurs(lower(user_q), lower(quiz_text)))
        => verdict = <<TRUE>>

\* a mixed-case question of fewer than 8 tokens, found in the quiz text only
\* after lowercasing, is blocked
C2_Witness ==
    /\ GuardDone
    /\ user_q # lower(user_q)
    /\ quiz_text # lower(quiz_text)
    /\ Occurs(lower(user_q), lower(quiz_text))
    /\ ~Occurs(user_q, quiz_text)
    /\ Cardinality(DistinctTokens(user_q)) < 8
    /\ verdict = <<TRUE>>

\* C3: for a non-empty question and quiz text where the lowercased question is
\* not a substring of the lowercased quiz text, the guard blocks exactly when
\* the distinct tokens shared are at least max(8, floor(0.4 * distinct tokens
\* of the question)).
C3_TokenOverlapThreshold ==
    (GuardDone /\ user_q # "" /\ quiz_text # ""
        /\ ~Occurs(lower(user_q), lower(quiz_text)))
        => verdict = <<SharedTokens(user_q, quiz_text)
                          >= Max(8, (4 * Cardinality(DistinctTokens(user_q))) \div 10)>>

\* 10 distinct question tokens, 8 of them shared, no verbatim match: blocked
C3_Witness ==
    /\ GuardDone
    /\ ~Occurs(lower(user_q), lower(quiz_text))
    /\ Cardinality(DistinctTokens(user_q)) = 10
    /\ SharedTokens(user_q, quiz_text) = 8
    /\ verdict = <<TRUE>>

\* C4: the guard fails open: an empty question or an empty quiz text is never
\* blocked.
C4_FailsOpen ==
    (GuardDone /\ (user_q = "" \/ quiz_text = "")) => verdict = <<FALSE>>

\* the empty question against a non-empty quiz text is let through
C4_Witness ==
    /\ GuardDone
    /\ user_q = ""
    /\ quiz_text # ""
    /\ verdict = <<FALSE>>

-----------------------------------------------------------------------------
(* Properties of the payload, checked under SpecPayload *)

PayloadDone == pc = "payload_out"

AllWhitespace(s) == \A k \in 1..Len(s) : CharAt(s, k) \in WhitespaceChars
\* r is s without its leading and trailing whitespace
IsTrimOf(r, s) ==
    /\ \E i \in 0..Len(s) :
          /\ i + Len(r) <= Len(s)
          /\ SubSeq(s, i + 1, i + Len(r)) = r
          /\ AllWhitespace(SubSeq(s, 1, i))
          /\ AllWhitespace(SubSeq(s, i + Len(r) + 1, Len(s)))
    /\ r # "" => /\ CharAt(r, 1) \notin WhitespaceChars
                 /\ CharAt(r, Len(r)) \notin WhitespaceChars

\* the part of a segment after its header
Body(content, header) == SubSeq(content, Len(header) + 1, Len(content))

\* body is the text cut to its first limit characters, or the placeholder
IsCutOrPlaceholder(body, text, limit) ==
    IF text = "" THEN body = "(none provided)"
    ELSE /\ IsPrefixOf(body, text)
         /\ Len(body) = Min(Len(text), limit)

\* C5: the payload is exactly 4 segments in the fixed order; the course segment
\* carries at most the first 200,000 characters of the course text, the quiz
\* segment at most the first 100,000 of the quiz text, each the placeholder when
\* the text is empty; the last segment is the trimmed question with role user.
C5_PayloadShape ==
    PayloadDone =>
        /\ Len(messages) = 4
        /\ <<messages[1].role, messages[2].role, messages[3].role,
             messages[4].role>> = <<"system", "system", "system", "user">>
        /\ messages[1].content = SYSTEM_INSTRUCTION
        /\ IsPrefixOf("COURSE MATERIAL:\n", messages[2].content)
        /\ IsCutOrPlaceholder(Body(messages[2].content, "COURSE MATERIAL:\n"),
                              course_text, 200000)
        /\ IsPrefixOf(QUIZ_HEADER, messages[3].content)
        /\ IsCutOrPlaceholder(Body(messages[3].content, QUIZ_HEADER),
                              quiz_text, 100000)
        /\ IsTrimOf(messages[4].content, user_q)

\* both texts longer than their limits and a question with whitespace around it
C5_Witness ==
    /\ PayloadDone
    /\ Len(course_text) > 200000
    /\ Len(quiz_text) > 100000
    /\ Len(Body(messages[2].content, COURSE_HEADER)) = 200000
    /\ Len(Body(messages[3].content, QUIZ_HEADER)) = 100000
    /\ user_q # messages[4].content
    /\ messages[4].content # ""

====
